---- MODULE Spec2Model ----
(***************************************************************************)
(* Model of the movie browser: the Home component's browse state           *)
(* (src/src/Home.jsx) and the search-popularity ledger client              *)
(* (appwrite.js, src/unnamed/part_000 lines 1-102).                        *)
(*                                                                         *)
(* Every asynchronous function is cut at its awaits: one action per        *)
(* resumption, each running to the next await as JavaScript does.          *)
(***************************************************************************)
EXTENDS Integers, Sequences, FiniteSets, TLC

(***************************************************************************)
(* Bounds of the model.                                                    *)
(***************************************************************************)
MaxPages == 2        \* largest total_pages a catalog response carries
MaxInFlight == 2     \* fetchMovies calls that may be pending at once
MaxCount == 3        \* largest count an update of a counter row writes
PagingPages == 5     \* total_pages of the catalog that is paged through

(***************************************************************************)
(* Values.                                                                 *)
(***************************************************************************)
Undefined == "undefined"            \* reading a property an object lacks
Null == "null"                      \* poster_path of a movie without poster

\* The texts the user types; "" is the empty search box.
QueryTexts == {"", "batman"}

\* Movies as the catalog returns them (id, title, poster_path; no "$id").
Batman == [id |-> "155", title |-> "The Dark Knight", poster_path |-> "/qJ2.jpg"]
Inception == [id |-> "27205", title |-> "Inception", poster_path |-> Null]
Movies == {Batman, Inception}
NoMovie == [id |-> Undefined, title |-> Undefined, poster_path |-> Null]

\* The result lists a catalog page can carry.
ResultLists == {<<>>, <<Batman>>, <<Inception, Batman>>}

\* The parsed body of a response; NoData stands for a body that does not
\* parse and for the data of a call that has none (yet, or any more).
NoData == [parsable |-> FALSE, results |-> <<>>, total_pages |-> 0]
Bodies ==
    {NoData} \cup
    {[parsable |-> TRUE, results |-> <<>>, total_pages |-> 1]} \cup
    {[parsable |-> TRUE, results |-> r, total_pages |-> t] :
        r \in ResultLists \ {<<>>}, t \in 1..MaxPages}

NoDoc == [dollarId |-> Undefined, count |-> 0]

\* Movies with the fields the filters read (Home.jsx:148-150).  vote_average
\* is in tenths; the catalog may leave out vote_average or genre_ids.
Heat ==
    [id |-> "949", title |-> "Heat", poster_path |-> "/heat.jpg",
     vote_average |-> 60, genre_ids |-> <<28, 18>>]
Amelie ==
    [id |-> "194", title |-> "Amelie", poster_path |-> "/amelie.jpg",
     vote_average |-> 75, genre_ids |-> <<35>>]
Unrated ==
    [id |-> "1001", title |-> "Unrated", poster_path |-> Null,
     genre_ids |-> <<18>>]
Untagged ==
    [id |-> "1002", title |-> "Untagged", poster_path |-> Null,
     vote_average |-> 61]
RatedLists == {<<Heat, Unrated>>, <<Amelie, Untagged, Heat>>}

\* The genres of the catalog (GET /genre/movie/list) and the values the
\* genre select and the rating slider can take.
GenreAction == [id |-> 28, name |-> "Action"]
GenreDrama == [id |-> 18, name |-> "Drama"]
GenreList == <<GenreAction, GenreDrama>>
Ratings == {0, 60, 61}

\* localStorage.getItem('savedMovies'): null, a text that is not JSON, or
\* the JSON text of a list.
NoItem == [text |-> "null", value |-> <<>>]
NotJson == [text |-> "not json", value |-> <<>>]

\* JSON.stringify of a list of movies, and JSON.parse of an item.
Stringify(list) == [text |-> "json", value |-> list]
ParseThrows(item) == item.text = "not json"
Parse(item) == item.value

\* An item that is not null is a non-empty text, which is truthy.
Truthy(item) == item.text # "null"

\* The movie of the detail page (GET /movie/:id, part_003:37-43): the same
\* id as in a list response, other fields.
BatmanDetail ==
    [id |-> "155", title |-> "The Dark Knight", poster_path |-> "/qJ2.jpg",
     overview |-> "Batman raises the stakes."]

\* What the item can hold when the program starts.
StoredItems ==
    {NoItem, NotJson} \cup
    {Stringify(list) : list \in {<<>>, <<Batman>>, <<Inception, BatmanDetail>>}}

\* The body of the response to fetchGenres: not JSON, JSON with the genres,
\* or the JSON of an error response ({status_code, status_message}), which
\* has no genres.
NoGenreData == [parsable |-> FALSE, hasGenres |-> FALSE, genres |-> <<>>]
GenreBodies ==
    {NoGenreData,
     [parsable |-> TRUE, hasGenres |-> TRUE, genres |-> GenreList],
     [parsable |-> TRUE, hasGenres |-> FALSE, genres |-> <<>>]}

\* Home.jsx:68 and Home.jsx:82
NoMoviesFound == "No movies found."
FetchErrorMessage == "Error Fetching Movies. Please Try Again Later."

\* Variant: half the delay.
DebounceDelayHalved == 500 \div 2

\* Home.jsx:48, the delay handed to useDebounce
DebounceDelay == 500

\* The time one Tick advances the clock: half the debounce window.
TimeStep == DebounceDelay \div 2

\* part_000:33, Query.limit(5)
TrendingLimit == 5

VARIABLES
    searchTerm,            \* Home.jsx:22
    errorMessage,          \* Home.jsx:23
    movieList,             \* Home.jsx:24
    trendingMovies,        \* Home.jsx:25
    isLoading,             \* Home.jsx:26
    debouncedSearchTerm,   \* Home.jsx:27
    currentPage,           \* Home.jsx:28
    totalPages,            \* Home.jsx:29
    timerArmed,            \* useDebounce's pending timeout
    elapsed,               \* time since the timeout was (re)armed
    fetches,               \* pending fetchMovies calls, oldest first
    mountTrending,         \* the loadTrendingMovies call made on mount
    ledger,                \* the documents of the search collection
    genres,                \* Home.jsx:30
    selectedGenre,         \* Home.jsx:31
    minRating,             \* Home.jsx:32, in tenths (the slider's step is 0.1)
    genresFetch,           \* the fetchGenres call made on mount
    savedMovies,           \* Home.jsx:37
    contextSavedMovies,    \* SavedMoviesContext.jsx:9
    storage,               \* localStorage's item 'savedMovies'
    mountedPage,           \* the page that is mounted inside the provider
    strictEffects,         \* main.jsx:12: a development build runs mount effects twice
    phase,                 \* where the mount of the favourites stores stands
    updates,               \* setSavedMovies calls of the provider not yet rendered
    crashed                \* an error escaped a render or an effect: React unmounts the tree

browseVars == <<searchTerm, errorMessage, movieList, trendingMovies, isLoading,
                debouncedSearchTerm, currentPage, totalPages, timerArmed, elapsed,
                fetches, mountTrending, ledger>>
filterVars == <<genres, selectedGenre, minRating, genresFetch>>
favouriteVars == <<savedMovies, contextSavedMovies, storage, mountedPage, strictEffects,
                   phase, updates>>
asideVars == <<filterVars, favouriteVars, crashed>>

vars == <<browseVars, filterVars, favouriteVars, crashed>>

viewVars == <<errorMessage, movieList, isLoading, totalPages>>
inputVars == <<searchTerm, debouncedSearchTerm, currentPage, timerArmed, elapsed>>

(***************************************************************************)
(* The document collection (the Appwrite calls of part_000).               *)
(***************************************************************************)
Min(a, b) == IF a < b THEN a ELSE b
Range(s) == {s[i] : i \in DOMAIN s}

\* movie.$id.  "$id" is the key the document store gives its own documents;
\* the movie objects of a catalog response carry "id" and no "$id", so the
\* read yields undefined for every movie updateSearchCount is called with
\* (Home.jsx:77 passes data.results[0]).
DollarId(movie) ==
    IF "dollarId" \in DOMAIN movie THEN movie.dollarId ELSE Undefined

\* part_000:85-87
PosterUrl(movie) ==
    IF movie.poster_path # Null
    THEN <<"https://image.tmdb.org/t/p/w500", movie.poster_path>>
    ELSE <<>>

\* part_000:57-61, listDocuments with Query.equal('query', query)
listDocuments(docs, query) == {d \in docs : d.query = query}

\* Variant: the document id is the movie's catalog id.
createDocumentIdFromMovieId(movie) == movie.id

\* part_000:80, the document id handed to createDocument
createDocumentId(movie) == DollarId(movie)

\* part_000:81-89, the data handed to createDocument
createDocumentData(query, movie) ==
    [query |-> query, count |-> 1, title |-> movie.title,
     poster_url |-> PosterUrl(movie), movie_id |-> movie.id]

\* databases.createDocument throws "Missing required parameter" before any
\* request is sent when the document id is undefined, and the collection
\* refuses a document id that is already in use.
MissingParameter(documentId) == documentId = Undefined
DocumentExists(docs, documentId) == \E d \in docs : d.dollarId = documentId

createDocument(docs, documentId, data) ==
    docs \cup {[dollarId |-> documentId, query |-> data.query,
                count |-> data.count, title |-> data.title,
                poster_url |-> data.poster_url, movie_id |-> data.movie_id]}

\* part_000:67-74, updateDocument(doc.$id, {count: doc.count + 1})
updateDocument(docs, doc) ==
    {IF d.dollarId = doc.dollarId THEN [d EXCEPT !.count = doc.count + 1] ELSE d
        : d \in docs}

\* Variant: the backend sorts by count in ascending order.
RECURSIVE orderAscLimit(_, _)
orderAscLimit(docs, limit) ==
    IF limit = 0 \/ docs = {}
    THEN {<<>>}
    ELSE LET first == {d \in docs : \A e \in docs : d.count <= e.count}
         IN UNION {{<<d>> \o s : s \in orderAscLimit(docs \ {d}, limit - 1)}
                      : d \in first}

\* part_000:28-35, listDocuments with Query.orderDesc('count'), Query.limit(5):
\* every order the backend may answer with (ties are in backend order).
\* The first document is one of those with the largest count, the rest is
\* an answer over the other documents.
RECURSIVE orderDescLimit(_, _)
orderDescLimit(docs, limit) ==
    IF limit = 0 \/ docs = {}
    THEN {<<>>}
    ELSE LET first == {d \in docs : \A e \in docs : d.count >= e.count}
         IN UNION {{<<d>> \o s : s \in orderDescLimit(docs \ {d}, limit - 1)}
                      : d \in first}

\* part_000:38-43
trendingItem(doc) ==
    [dollarId |-> doc.dollarId, movie_id |-> doc.movie_id,
     title |-> doc.title, poster_url |-> doc.poster_url]

getTrendingMovies(docs) ==
    {[i \in DOMAIN s |-> trendingItem(s[i])] : s \in orderDescLimit(docs, TrendingLimit)}

\* Variant: the error reaches the catch block of loadTrendingMovies
\* (Home.jsx:94-96), which leaves the list as it was.
getTrendingMoviesRethrows(list) == list

\* part_000:44-47: the catch block of getTrendingMovies returns [], which
\* loadTrendingMovies hands to setTrendingMovies (Home.jsx:92-93).
getTrendingMoviesCatch(list) == <<>>

\* The collection before the program starts: for every query text, no row
\* or one row, recorded earlier for some movie under a document id of its own.
SeedId(query) == IF query = "batman" THEN "doc1" ELSE "doc2"

SeedRow(query, movie) ==
    [dollarId |-> SeedId(query), query |-> query, count |-> 1,
     title |-> movie.title, poster_url |-> PosterUrl(movie),
     movie_id |-> movie.id]

SeedLedgers ==
    {{SeedRow(q, Batman) : q \in Q} : Q \in SUBSET (QueryTexts \ {""})}

(***************************************************************************)
(* fetchMovies (Home.jsx:50-86), cut at its awaits.                        *)
(***************************************************************************)
\* Home.jsx:51-59: the call up to "await fetch(endpoint, API_OPTIONS)".
fetchMovies(query, page) ==
    [query |-> query, page |-> page, pc |-> "fetch",
     data |-> NoData, movie |-> NoMovie, doc |-> NoDoc]

View ==
    [errorMessage |-> errorMessage, movieList |-> movieList,
     isLoading |-> isLoading, totalPages |-> totalPages]

SetView(v) ==
    /\ errorMessage' = v.errorMessage
    /\ movieList' = v.movieList
    /\ isLoading' = v.isLoading
    /\ totalPages' = v.totalPages

\* Variant: there is no finally block, the flag stays as it is.
FinallyKeepsLoading(v) == v

\* Home.jsx:83-85
Finally(v) == [v EXCEPT !.isLoading = FALSE]

\* Variant: the catch block also empties the list.
CatchClearsList(v) ==
    [v EXCEPT !.errorMessage = FetchErrorMessage, !.movieList = <<>>]

\* Home.jsx:80-82
Catch(v) == [v EXCEPT !.errorMessage = FetchErrorMessage]

\* Variant: the zero-result branch leaves the old list in place.
NoResultsKeepsList(v) == [v EXCEPT !.errorMessage = NoMoviesFound]

\* Home.jsx:67-71
NoResults(v) == [v EXCEPT !.errorMessage = NoMoviesFound, !.movieList = <<>>]

\* Home.jsx:73-74
Results(v, data) ==
    [v EXCEPT !.movieList = data.results, !.totalPages = data.total_pages]

\* Variant: a ledger failure reaches the catch block of fetchMovies.
LedgerCatchSurfaces(v) == Catch(v)

\* part_000:92-95: updateSearchCount logs the error and returns normally;
\* nothing reaches the catch block of fetchMovies.
LedgerCatch(v) == v

\* Variant: the search is recorded whatever the query.
RecordsAnySearch(query, data) == Len(data.results) > 0

\* Home.jsx:76
RecordsSearch(query, data) == query # "" /\ Len(data.results) > 0

\* updateSearchCount has returned (its locals movie and doc are gone) and
\* fetchMovies awaits loadTrendingMovies (Home.jsx:78).
AwaitTrending(f) ==
    [f EXCEPT !.pc = "trending", !.movie = NoMovie, !.doc = NoDoc]

RemoveAt(s, i) == SubSeq(s, 1, i - 1) \o SubSeq(s, i + 1, Len(s))

(***************************************************************************)
(* The effects of the Home component (Home.jsx:114-127) that run after a   *)
(* render in which the debounced term is d and the page is p.              *)
(***************************************************************************)
\* Variant: the page is never reset.
NoResetPageEffect(d, p) == p

\* Home.jsx:125-127: setCurrentPage(1) when debouncedSearchTerm changed.
ResetPageEffect(d, p) == IF d # debouncedSearchTerm THEN 1 ELSE p

\* Variant: the fetch effect has no dependency list, it runs after every
\* render.
FetchEffectEveryRender(d, p) == <<fetchMovies(d, p)>>

\* Home.jsx:115-117: the fetchMovies calls, one for every render whose
\* (debouncedSearchTerm, currentPage) differs from the render before.
FetchEffect(d, p) ==
    LET first == IF <<d, p>> # <<debouncedSearchTerm, currentPage>>
                 THEN <<fetchMovies(d, p)>> ELSE <<>>
        q == ResetPageEffect(d, p)
        second == IF q # p THEN <<fetchMovies(d, q)>> ELSE <<>>
    IN first \o second

\* Variant: the fetch effect aborts the calls still pending when it issues
\* new ones.
RenderAbortsPending(d, p) ==
    LET calls == FetchEffect(d, p)
    IN /\ Len(calls) <= MaxInFlight
       /\ debouncedSearchTerm' = d
       /\ currentPage' = ResetPageEffect(d, p)
       /\ fetches' = IF calls # <<>> THEN calls ELSE fetches
       /\ IF calls # <<>>
          THEN /\ isLoading' = TRUE
               /\ errorMessage' = ""
          ELSE UNCHANGED <<isLoading, errorMessage>>
       /\ UNCHANGED <<movieList, totalPages>>

\* The commit of a render with the new values and the effects it runs.
Render(d, p) ==
    LET calls == FetchEffect(d, p)
    IN /\ Len(fetches) + Len(calls) <= MaxInFlight
       /\ debouncedSearchTerm' = d
       /\ currentPage' = ResetPageEffect(d, p)
       /\ fetches' = fetches \o calls
       /\ IF calls # <<>>
          THEN /\ isLoading' = TRUE          \* Home.jsx:51
               /\ errorMessage' = ""         \* Home.jsx:52
          ELSE UNCHANGED <<isLoading, errorMessage>>
       /\ UNCHANGED <<movieList, totalPages>>

(***************************************************************************)
(* Initial state: the component is mounted and its mount effects have run: *)
(* fetchMovies('', 1), loadTrendingMovies(), and the debounce timeout.     *)
(***************************************************************************)
InitBrowse ==
    /\ searchTerm = ""
    /\ errorMessage = ""
    /\ movieList = <<>>
    /\ trendingMovies = <<>>
    /\ isLoading = TRUE
    /\ debouncedSearchTerm = ""
    /\ currentPage = 1
    /\ totalPages = 1
    /\ timerArmed = TRUE
    /\ elapsed = 0
    /\ fetches = <<fetchMovies("", 1)>>
    /\ mountTrending = "pending"

\* Home.jsx:30-32 and the fetchGenres call of the mount effect (Home.jsx:111).
InitFilters ==
    /\ genres = <<>>
    /\ selectedGenre = ""
    /\ minRating = 0
    /\ genresFetch = [pc |-> "fetch", data |-> NoGenreData]

\* The favourites stores at rest: nothing was ever saved, the item holds "[]".
InitFavouritesIdle ==
    /\ savedMovies = <<>>
    /\ contextSavedMovies = <<>>
    /\ storage = Stringify(<<>>)
    /\ mountedPage = "home"
    /\ strictEffects = FALSE
    /\ phase = "idle"
    /\ updates = <<>>

Init ==
    /\ InitBrowse
    /\ ledger \in SeedLedgers
    /\ InitFilters
    /\ InitFavouritesIdle
    /\ crashed = FALSE

(***************************************************************************)
(* User input and the debounce (Home.jsx:48, Search onChange).             *)
(***************************************************************************)
\* The user edits the search box: useDebounce restarts its timeout.
SetSearchTerm(text) ==
    /\ text # searchTerm
    /\ searchTerm' = text
    /\ timerArmed' = TRUE
    /\ elapsed' = 0
    /\ UNCHANGED asideVars
    /\ UNCHANGED <<debouncedSearchTerm, currentPage, viewVars, trendingMovies,
                   fetches, mountTrending, ledger>>

\* Time passes while the timeout is pending.
Tick ==
    /\ timerArmed
    /\ elapsed < DebounceDelay
    /\ elapsed' = elapsed + TimeStep
    /\ UNCHANGED asideVars
    /\ UNCHANGED <<searchTerm, debouncedSearchTerm, currentPage, timerArmed,
                   viewVars, trendingMovies, fetches, mountTrending, ledger>>

\* The timeout fires: setDebouncedSearchTerm(searchTerm), render, effects.
DebounceFires ==
    /\ timerArmed
    /\ elapsed >= DebounceDelay
    /\ timerArmed' = FALSE
    /\ Render(searchTerm, currentPage)
    /\ UNCHANGED asideVars
    /\ UNCHANGED <<searchTerm, elapsed, trendingMovies, mountTrending, ledger>>

(***************************************************************************)
(* Pagination buttons (Home.jsx:248-289); they are rendered only when      *)
(* neither the spinner nor the error message is (Home.jsx:225-229).        *)
(***************************************************************************)
PaginationShown == ~isLoading /\ errorMessage = ""

\* Home.jsx:257, 270, 285: the disabled attribute of each button.
FirstDisabled == currentPage = 1 \/ isLoading
PreviousDisabled == currentPage = 1 \/ isLoading
NextDisabled == currentPage = totalPages \/ isLoading

Max(a, b) == IF a > b THEN a ELSE b

\* Home.jsx:250-256, 263-269, 278-284: the page after the onClick handler.
FirstOnClick ==
    IF currentPage # 1 /\ ~isLoading THEN 1 ELSE currentPage

\* Variant: Previous steps back without the floor of 1.
PreviousOnClickNoFloor ==
    IF ~isLoading THEN currentPage - 1 ELSE currentPage

PreviousOnClick ==
    IF currentPage > 1 /\ ~isLoading THEN Max(currentPage - 1, 1) ELSE currentPage

NextOnClick ==
    IF currentPage < totalPages /\ ~isLoading THEN currentPage + 1 ELSE currentPage

\* A click on a button that is rendered and not disabled.
First ==
    /\ PaginationShown /\ ~FirstDisabled
    /\ Render(debouncedSearchTerm, FirstOnClick)
    /\ UNCHANGED asideVars
    /\ UNCHANGED <<searchTerm, timerArmed, elapsed, trendingMovies,
                   mountTrending, ledger>>

Previous ==
    /\ PaginationShown /\ ~PreviousDisabled
    /\ Render(debouncedSearchTerm, PreviousOnClick)
    /\ UNCHANGED asideVars
    /\ UNCHANGED <<searchTerm, timerArmed, elapsed, trendingMovies,
                   mountTrending, ledger>>

NextPage ==
    /\ PaginationShown /\ ~NextDisabled
    /\ Render(debouncedSearchTerm, NextOnClick)
    /\ UNCHANGED asideVars
    /\ UNCHANGED <<searchTerm, timerArmed, elapsed, trendingMovies,
                   mountTrending, ledger>>

(***************************************************************************)
(* The resumptions of a pending fetchMovies call, fetches[i].              *)
(***************************************************************************)
Pending(i, at) == i \in DOMAIN fetches /\ fetches[i].pc \in at

\* Home.jsx:59-63: fetch rejects, or resolves with a response that is not
\* ok; either way the catch block and the finally block run.
FetchFails(i) ==
    /\ Pending(i, {"fetch"})
    /\ SetView(Finally(Catch(View)))
    /\ fetches' = RemoveAt(fetches, i)
    /\ UNCHANGED asideVars
    /\ UNCHANGED <<inputVars, trendingMovies, mountTrending, ledger>>

\* Home.jsx:59-65: fetch resolves with an ok response carrying body; the call
\* now awaits response.json().
FetchResolves(i, body) ==
    /\ Pending(i, {"fetch"})
    /\ fetches' = [fetches EXCEPT ![i].pc = "json", ![i].data = body]
    /\ UNCHANGED asideVars
    /\ UNCHANGED <<inputVars, viewVars, trendingMovies, mountTrending, ledger>>

\* Home.jsx:65-79: response.json() settles; the call runs on to its end or
\* to the first await of updateSearchCount (part_000:57).
JsonSettles(i) ==
    /\ Pending(i, {"json"})
    /\ LET f == fetches[i]
       IN IF ~f.data.parsable
          THEN /\ SetView(Finally(Catch(View)))
               /\ fetches' = RemoveAt(fetches, i)
          ELSE IF Len(f.data.results) = 0
          THEN /\ SetView(Finally(NoResults(View)))
               /\ fetches' = RemoveAt(fetches, i)
          ELSE IF RecordsSearch(f.query, f.data)
          THEN /\ SetView(Results(View, f.data))
               /\ fetches' = [fetches EXCEPT ![i].pc = "list",
                                             ![i].data = NoData,
                                             ![i].movie = f.data.results[1]]
          ELSE /\ SetView(Finally(Results(View, f.data)))
               /\ fetches' = RemoveAt(fetches, i)
    /\ UNCHANGED asideVars
    /\ UNCHANGED <<inputVars, trendingMovies, mountTrending, ledger>>

\* part_000:57-91: listDocuments settles; on success updateSearchCount sends
\* its update or its create, on failure its catch block runs (part_000:92)
\* and fetchMovies goes on to loadTrendingMovies (Home.jsx:78).
ListSettles(i, ok) ==
    /\ Pending(i, {"list"})
    /\ LET f == fetches[i]
           existing == listDocuments(ledger, f.query)
       IN IF ~ok
          THEN /\ fetches' = [fetches EXCEPT ![i] = AwaitTrending(f)]
               /\ SetView(LedgerCatch(View))
          ELSE IF existing # {}
          THEN /\ \E d \in existing :
                    fetches' = [fetches EXCEPT
                                   ![i].pc = "update",
                                   ![i].doc = [dollarId |-> d.dollarId,
                                               count |-> d.count]]
               /\ UNCHANGED viewVars
          ELSE IF MissingParameter(createDocumentId(f.movie))
          THEN /\ fetches' = [fetches EXCEPT ![i] = AwaitTrending(f)]
               /\ SetView(LedgerCatch(View))
          ELSE /\ fetches' = [fetches EXCEPT ![i].pc = "create"]
               /\ UNCHANGED viewVars
    /\ UNCHANGED asideVars
    /\ UNCHANGED <<inputVars, trendingMovies, mountTrending, ledger>>

\* part_000:67-95: updateDocument or createDocument settles; a failure is
\* caught and logged.  fetchMovies goes on to loadTrendingMovies.
WriteSettles(i, ok) ==
    /\ Pending(i, {"update", "create"})
    /\ LET f == fetches[i]
           id == createDocumentId(f.movie)
       IN IF ~ok \/ (f.pc = "create" /\ DocumentExists(ledger, id))
          THEN /\ UNCHANGED ledger
               /\ SetView(LedgerCatch(View))
          ELSE IF f.pc = "update"
          THEN /\ f.doc.count < MaxCount
               /\ ledger' = updateDocument(ledger, f.doc)
               /\ UNCHANGED viewVars
          ELSE /\ ledger' = createDocument(ledger, id,
                                           createDocumentData(f.query, f.movie))
               /\ UNCHANGED viewVars
    /\ fetches' = [fetches EXCEPT ![i] = AwaitTrending(fetches[i])]
    /\ UNCHANGED asideVars
    /\ UNCHANGED <<inputVars, trendingMovies, mountTrending>>

\* Home.jsx:90-97 with part_000:26-48: the list of getTrendingMovies settles;
\* a failure makes getTrendingMovies return [].  Then Home.jsx:83-85.
TrendingSettles(i, ok) ==
    /\ Pending(i, {"trending"})
    /\ IF ok THEN trendingMovies' \in getTrendingMovies(ledger)
             ELSE trendingMovies' = getTrendingMoviesCatch(trendingMovies)
    /\ SetView(Finally(View))
    /\ fetches' = RemoveAt(fetches, i)
    /\ UNCHANGED asideVars
    /\ UNCHANGED <<inputVars, mountTrending, ledger>>

\* Home.jsx:119-122: the loadTrendingMovies call made on mount settles.
MountTrendingSettles(ok) ==
    /\ mountTrending = "pending"
    /\ mountTrending' = "done"
    /\ IF ok THEN trendingMovies' \in getTrendingMovies(ledger)
             ELSE trendingMovies' = getTrendingMoviesCatch(trendingMovies)
    /\ UNCHANGED asideVars
    /\ UNCHANGED <<inputVars, viewVars, fetches, ledger>>

Next ==
    \/ \E text \in QueryTexts : SetSearchTerm(text)
    \/ Tick
    \/ DebounceFires
    \/ First
    \/ Previous
    \/ NextPage
    \/ \E i \in 1..MaxInFlight : FetchFails(i)
    \/ \E i \in 1..MaxInFlight, body \in Bodies : FetchResolves(i, body)
    \/ \E i \in 1..MaxInFlight : JsonSettles(i)
    \/ \E i \in 1..MaxInFlight, ok \in BOOLEAN : ListSettles(i, ok)
    \/ \E i \in 1..MaxInFlight, ok \in BOOLEAN : WriteSettles(i, ok)
    \/ \E i \in 1..MaxInFlight, ok \in BOOLEAN : TrendingSettles(i, ok)
    \/ \E ok \in BOOLEAN : MountTrendingSettles(ok)

Spec == Init /\ [][Next]_vars

TypeOK ==
    /\ searchTerm \in QueryTexts
    /\ debouncedSearchTerm \in QueryTexts
    /\ errorMessage \in {"", NoMoviesFound, FetchErrorMessage}
    /\ movieList \in ResultLists
    /\ isLoading \in BOOLEAN
    /\ currentPage \in 1..MaxPages
    /\ totalPages \in 1..MaxPages
    /\ Len(fetches) <= MaxInFlight
    /\ \A d \in ledger : d.count \in 1..MaxCount

(***************************************************************************)
(* The genre and rating filters (Home.jsx:99-112, 146-152, 191-217).       *)
(***************************************************************************)
\* The value of a genre's option (Home.jsx:200: value={genre.id} reaches
\* the handler as text) and Number(selectedGenre) (Home.jsx:150).
OptionValue(genre) == IF genre.id = 28 THEN "28" ELSE "18"
Number(text) == IF text = "28" THEN 28 ELSE IF text = "18" THEN 18 ELSE 0

\* Home.jsx:148: movie.vote_average >= minRating.  When the movie has no
\* vote_average the left side is undefined, which compares as NaN: false.
meetsRating(movie) ==
    IF "vote_average" \in DOMAIN movie
    THEN movie.vote_average >= minRating
    ELSE FALSE

\* Home.jsx:149-150: !selectedGenre || movie.genre_ids?.includes(Number(...))
meetsGenre(movie) ==
    \/ selectedGenre = ""
    \/ /\ "genre_ids" \in DOMAIN movie
       /\ Number(selectedGenre) \in Range(movie.genre_ids)

Displayed(movie) == meetsRating(movie) /\ meetsGenre(movie)

\* Home.jsx:147-152
filteredMovies == SelectSeq(movieList, Displayed)

\* A render of Home in which neither debouncedSearchTerm nor currentPage is
\* new, and the effects after it.
Rerender ==
    /\ Render(debouncedSearchTerm, currentPage)
    /\ UNCHANGED <<searchTerm, timerArmed, elapsed, trendingMovies,
                   mountTrending, ledger>>

\* Home.jsx:196: onChange of the genre select; its options are "All Genres"
\* and the fetched genres.
SetSelectedGenre(value) ==
    /\ ~crashed
    /\ value = "" \/ \E g \in Range(genres) : value = OptionValue(g)
    /\ value # selectedGenre
    /\ selectedGenre' = value
    /\ Rerender
    /\ UNCHANGED <<genres, minRating, genresFetch, favouriteVars, crashed>>

\* Home.jsx:212: onChange of the rating slider.
SetMinRating(rating) ==
    /\ ~crashed
    /\ rating # minRating
    /\ minRating' = rating
    /\ Rerender
    /\ UNCHANGED <<genres, selectedGenre, genresFetch, favouriteVars, crashed>>

\* Home.jsx:103, 106-108: fetch rejects (no response at all); the catch block
\* logs it.
GenresFetchFails ==
    /\ ~crashed
    /\ genresFetch.pc = "fetch"
    /\ genresFetch' = [genresFetch EXCEPT !.pc = "done"]
    /\ UNCHANGED <<browseVars, genres, selectedGenre, minRating, favouriteVars,
                   crashed>>

\* Home.jsx:103-104: fetch resolves with a response, ok or not (res.ok is not
\* looked at); the call awaits res.json().
GenresFetchResolves(body) ==
    /\ ~crashed
    /\ genresFetch.pc = "fetch"
    /\ genresFetch' = [pc |-> "json", data |-> body]
    /\ UNCHANGED <<browseVars, genres, selectedGenre, minRating, favouriteVars,
                   crashed>>

\* Home.jsx:104-108: res.json() settles.  A body that is not JSON goes to the
\* catch block.  Otherwise setGenres(data.genres): with a body that has no
\* genres the state becomes undefined, and the render that follows throws at
\* genres.map (Home.jsx:199) outside every try block.
GenresJsonSettles ==
    /\ ~crashed
    /\ genresFetch.pc = "json"
    /\ genresFetch' = [pc |-> "done", data |-> NoGenreData]
    /\ IF ~genresFetch.data.parsable
       THEN UNCHANGED <<genres, crashed, browseVars>>
       ELSE IF genresFetch.data.hasGenres
       THEN /\ genres' = genresFetch.data.genres
            /\ Rerender
            /\ UNCHANGED crashed
       ELSE /\ crashed' = TRUE
            /\ UNCHANGED <<genres, browseVars>>
    /\ UNCHANGED <<selectedGenre, minRating, favouriteVars>>

FilterBodies ==
    {[parsable |-> TRUE, results |-> r, total_pages |-> t] :
        r \in RatedLists, t \in 1..MaxPages}

InitFiltering ==
    /\ InitBrowse
    /\ ledger = {}
    /\ InitFilters
    /\ InitFavouritesIdle
    /\ crashed = FALSE

NextFiltering ==
    \/ \E value \in {"", "28", "18"} : SetSelectedGenre(value)
    \/ \E rating \in Ratings : SetMinRating(rating)
    \/ GenresFetchFails
    \/ \E body \in GenreBodies : GenresFetchResolves(body)
    \/ GenresJsonSettles
    \/ NextPage
    \/ Previous
    \/ \E i \in 1..MaxInFlight : FetchFails(i)
    \/ \E i \in 1..MaxInFlight, body \in FilterBodies : FetchResolves(i, body)
    \/ \E i \in 1..MaxInFlight : JsonSettles(i)

SpecFiltering == InitFiltering /\ [][NextFiltering]_vars

(***************************************************************************)
(* The favourites: Home's own list (Home.jsx:36-45, 129-144) and the list  *)
(* of SavedMoviesProvider (SavedMoviesContext.jsx), which the detail page  *)
(* uses (part_003:23, 101-108).  Both keep their list in the item          *)
(* 'savedMovies'.  The provider wraps every page (main.jsx:14-16); Home    *)
(* and the detail page are mounted one at a time.                          *)
(***************************************************************************)
\* Home.jsx:136 (some) and SavedMoviesContext.jsx:23 (find): by id.
IsSavedSameObject(list, movie) == movie \in Range(list)

IsSaved(list, movie) == \E i \in DOMAIN list : list[i].id = movie.id

\* Variant: the filter keeps the entry it should drop.
WithoutInverted(list, id) == SelectSeq(list, LAMBDA m : m.id = id)

\* Home.jsx:143 and SavedMoviesContext.jsx:29: prev.filter(m => m.id !== id)
Without(list, id) == SelectSeq(list, LAMBDA m : m.id # id)

\* Home.jsx:37-45: the initial state of Home's list.
HomeInitialState(item) ==
    IF Truthy(item) /\ ~ParseThrows(item) THEN Parse(item) ELSE <<>>

\* localStorage.setItem('savedMovies', JSON.stringify(list)); when the
\* storage cannot be written setItem throws and the item stays as it was.
SetItem(item, list, writable) == IF writable THEN Stringify(list) ELSE item

\* The passive effects of a mount, children before parents: Home's sync
\* effect when Home is mounted (Home.jsx:130-132), then the provider's load
\* effect (SavedMoviesContext.jsx:12-15) and its sync effect (18-20), which
\* still sees the initial list [].  An effect that throws ends the effects
\* of its component; the error is uncaught.
MountEffects(writable) ==
    /\ ~crashed
    /\ phase \in {"effects", "effects again"}
    /\ LET afterHome == IF mountedPage = "home"
                        THEN SetItem(storage, savedMovies, writable)
                        ELSE storage
           homeThrows == mountedPage = "home" /\ ~writable
           loadThrows == Truthy(afterHome) /\ ParseThrows(afterHome)
           loaded == IF Truthy(afterHome) /\ ~loadThrows
                     THEN <<Parse(afterHome)>> ELSE <<>>
       IN /\ updates' = updates \o loaded
          /\ storage' = IF loadThrows THEN afterHome
                        ELSE SetItem(afterHome, contextSavedMovies, writable)
          /\ crashed' = (homeThrows \/ loadThrows \/ ~writable)
    /\ phase' = IF phase = "effects" /\ strictEffects
                THEN "effects again" ELSE "render"
    /\ UNCHANGED <<savedMovies, contextSavedMovies, mountedPage, strictEffects>>
    /\ UNCHANGED <<browseVars, filterVars>>

\* The provider renders with the last list handed to setSavedMovies by the
\* load effect, and its sync effect writes that list.
CommitUpdates(writable) ==
    /\ ~crashed
    /\ phase = "render"
    /\ phase' = "idle"
    /\ updates' = <<>>
    /\ IF updates = <<>>
       THEN UNCHANGED <<contextSavedMovies, storage, crashed>>
       ELSE /\ contextSavedMovies' = updates[Len(updates)]
            /\ storage' = SetItem(storage, contextSavedMovies', writable)
            /\ crashed' = ~writable
    /\ UNCHANGED <<savedMovies, mountedPage, strictEffects>>
    /\ UNCHANGED <<browseVars, filterVars>>

\* Home.jsx:135-139, then the render and the sync effect (130-132).
handleSaveMovie(movie, writable) ==
    /\ ~crashed /\ phase = "idle" /\ mountedPage = "home"
    /\ IF ~IsSaved(savedMovies, movie)
       THEN /\ savedMovies' = Append(savedMovies, movie)
            /\ storage' = SetItem(storage, savedMovies', writable)
            /\ crashed' = ~writable
       ELSE UNCHANGED <<savedMovies, storage, crashed>>
    /\ UNCHANGED <<contextSavedMovies, mountedPage, strictEffects, phase, updates>>
    /\ UNCHANGED <<browseVars, filterVars>>

\* Home.jsx:142-144: filter always makes a new list, so the render and the
\* sync effect follow even when nothing was removed.
handleRemoveMovie(movie, writable) ==
    /\ ~crashed /\ phase = "idle" /\ mountedPage = "home"
    /\ savedMovies' = Without(savedMovies, movie.id)
    /\ storage' = SetItem(storage, savedMovies', writable)
    /\ crashed' = ~writable
    /\ UNCHANGED <<contextSavedMovies, mountedPage, strictEffects, phase, updates>>
    /\ UNCHANGED <<browseVars, filterVars>>

\* SavedMoviesContext.jsx:22-26, called by the detail page (part_003:106).
saveMovie(movie, writable) ==
    /\ ~crashed /\ phase = "idle" /\ mountedPage = "detail"
    /\ IF ~IsSaved(contextSavedMovies, movie)
       THEN /\ contextSavedMovies' = Append(contextSavedMovies, movie)
            /\ storage' = SetItem(storage, contextSavedMovies', writable)
            /\ crashed' = ~writable
       ELSE UNCHANGED <<contextSavedMovies, storage, crashed>>
    /\ UNCHANGED <<savedMovies, mountedPage, strictEffects, phase, updates>>
    /\ UNCHANGED <<browseVars, filterVars>>

\* SavedMoviesContext.jsx:28-30, called by the detail page (part_003:104).
removeMovie(id, writable) ==
    /\ ~crashed /\ phase = "idle" /\ mountedPage = "detail"
    /\ contextSavedMovies' = Without(contextSavedMovies, id)
    /\ storage' = SetItem(storage, contextSavedMovies', writable)
    /\ crashed' = ~writable
    /\ UNCHANGED <<savedMovies, mountedPage, strictEffects, phase, updates>>
    /\ UNCHANGED <<browseVars, filterVars>>

\* The user follows a movie's link (Home.jsx:234): Home unmounts and its
\* list is gone.
OpenDetail ==
    /\ ~crashed /\ phase = "idle" /\ mountedPage = "home"
    /\ mountedPage' = "detail"
    /\ savedMovies' = <<>>
    /\ UNCHANGED <<contextSavedMovies, storage, strictEffects, phase, updates,
                   crashed>>
    /\ UNCHANGED <<browseVars, filterVars>>

\* The user goes back (part_003:60-66): Home mounts, reads the item
\* (Home.jsx:37-45) and its sync effect writes the list it read (130-132).
BackToHome(writable) ==
    /\ ~crashed /\ phase = "idle" /\ mountedPage = "detail"
    /\ mountedPage' = "home"
    /\ savedMovies' = HomeInitialState(storage)
    /\ storage' = SetItem(storage, savedMovies', writable)
    /\ crashed' = ~writable
    /\ UNCHANGED <<contextSavedMovies, strictEffects, phase, updates>>
    /\ UNCHANGED <<browseVars, filterVars>>

\* The program starts on Home or on a detail page, in a development build
\* (React.StrictMode runs the mount effects twice, main.jsx:12) or not; the
\* first render is done, no effect has run yet.
InitFavourites ==
    /\ InitBrowse
    /\ ledger = {}
    /\ InitFilters
    /\ crashed = FALSE
    /\ storage \in StoredItems
    /\ mountedPage \in {"home", "detail"}
    /\ strictEffects \in BOOLEAN
    /\ savedMovies = IF mountedPage = "home" THEN HomeInitialState(storage) ELSE <<>>
    /\ contextSavedMovies = <<>>
    /\ phase = "effects"
    /\ updates = <<>>

FavouriteMovies == {Batman, Inception, BatmanDetail}

\* A click on the button of a card whose movie is in Home's list
\* (Home.jsx:237-239, 303-304 with part_004:67): the card calls onRemove.
CardRemove(movie, writable) ==
    /\ IsSaved(savedMovies, movie)
    /\ handleRemoveMovie(movie, writable)

\* A click on the button of the detail page of a movie that is in the
\* provider's list (part_003:30, 102-108).
DetailRemove(movie, writable) ==
    /\ IsSaved(contextSavedMovies, movie)
    /\ removeMovie(movie.id, writable)

NextFavourites ==
    \/ \E writable \in BOOLEAN : MountEffects(writable)
    \/ \E writable \in BOOLEAN : CommitUpdates(writable)
    \/ \E movie \in {Batman, Inception}, writable \in BOOLEAN :
          handleSaveMovie(movie, writable)
    \/ \E movie \in FavouriteMovies, writable \in BOOLEAN :
          CardRemove(movie, writable)
    \/ \E writable \in BOOLEAN : saveMovie(BatmanDetail, writable)
    \/ \E movie \in FavouriteMovies, writable \in BOOLEAN :
          DetailRemove(movie, writable)
    \/ OpenDetail
    \/ \E writable \in BOOLEAN : BackToHome(writable)

SpecFavourites == InitFavourites /\ [][NextFavourites]_vars

(***************************************************************************)
(* Paging through a catalog of PagingPages pages: the search box is left   *)
(* empty, so every fetch is a popular-movies fetch and the ledger is not   *)
(* called (Home.jsx:76).                                                   *)
(***************************************************************************)
PagingBodies ==
    {[parsable |-> TRUE, results |-> r, total_pages |-> t] :
        r \in ResultLists \ {<<>>}, t \in {PagingPages - 1, PagingPages}}

InitPaging ==
    /\ InitBrowse
    /\ ledger = {}
    /\ InitFilters
    /\ InitFavouritesIdle
    /\ crashed = FALSE

NextPaging ==
    \/ First
    \/ Previous
    \/ NextPage
    \/ \E i \in 1..MaxInFlight : FetchFails(i)
    \/ \E i \in 1..MaxInFlight, body \in PagingBodies : FetchResolves(i, body)
    \/ \E i \in 1..MaxInFlight : JsonSettles(i)

SpecPaging == InitPaging /\ [][NextPaging]_vars

(***************************************************************************)
(* Searching a catalog that answers every request by its query and page,   *)
(* next to a collection that earlier sessions have filled, with a backend  *)
(* that answers every call.                                                *)
(***************************************************************************)
\* The texts typed: two of them have the same first result.
SearchTexts == {"", "batman", "dark knight"}

\* The catalog's answer to the endpoint of Home.jsx:55-57 for a query and a
\* page: the popular movies for the empty query, else the matches.
Catalog(query, page) ==
    IF query = ""
    THEN [parsable |-> TRUE, results |-> <<Inception, Batman>>,
          total_pages |-> MaxPages]
    ELSE [parsable |-> TRUE, results |-> <<Batman>>, total_pages |-> 1]

\* A row an earlier session recorded under a document id of its own.
RecordedRow(documentId, query, count) ==
    [dollarId |-> documentId, query |-> query, count |-> count,
     title |-> Inception.title, poster_url |-> PosterUrl(Inception),
     movie_id |-> Inception.id]

\* A collection with more rows than the leaderboard shows, some of them
\* with the same count.
FilledLedger ==
    {SeedRow("batman", Batman),
     RecordedRow("doc3", "heat", 2), RecordedRow("doc4", "amelie", 2),
     RecordedRow("doc5", "alien", 3), RecordedRow("doc6", "jaws", 4),
     RecordedRow("doc7", "rocky", 5)}

InitLedger ==
    /\ InitBrowse
    /\ ledger \in {{}, FilledLedger}
    /\ InitFilters
    /\ InitFavouritesIdle
    /\ crashed = FALSE

\* The response to the request of the pending call fetches[i] arrives.
CatalogResolves(i) ==
    /\ i \in DOMAIN fetches
    /\ FetchResolves(i, Catalog(fetches[i].query, fetches[i].page))

NextLedger ==
    \/ \E text \in SearchTexts : SetSearchTerm(text)
    \/ Tick
    \/ DebounceFires
    \/ \E i \in 1..MaxInFlight : CatalogResolves(i)
    \/ \E i \in 1..MaxInFlight : JsonSettles(i)
    \/ \E i \in 1..MaxInFlight : ListSettles(i, TRUE)
    \/ \E i \in 1..MaxInFlight : WriteSettles(i, TRUE)
    \/ \E i \in 1..MaxInFlight : TrendingSettles(i, TRUE)
    \/ MountTrendingSettles(TRUE)

SpecLedger == InitLedger /\ [][NextLedger]_vars

(***************************************************************************)
(* Every request is answered in the end: the catalog and the backend may   *)
(* fail, but each pending call is resumed eventually.                      *)
(***************************************************************************)
\* The bodies of the catalog's responses: not JSON, no result, one result.
AnsweredBodies ==
    {NoData,
     [parsable |-> TRUE, results |-> <<>>, total_pages |-> 1],
     [parsable |-> TRUE, results |-> <<Batman>>, total_pages |-> MaxPages]}

\* The request the pending call fetches[i] awaits is answered or fails.
Answered(i) ==
    \/ FetchFails(i)
    \/ \E body \in AnsweredBodies : FetchResolves(i, body)
    \/ JsonSettles(i)
    \/ \E ok \in BOOLEAN : ListSettles(i, ok)
    \/ \E ok \in BOOLEAN : WriteSettles(i, ok)
    \/ \E ok \in BOOLEAN : TrendingSettles(i, ok)

NextAnswered ==
    \/ \E text \in QueryTexts : SetSearchTerm(text)
    \/ Tick
    \/ DebounceFires
    \/ NextPage
    \/ \E i \in 1..MaxInFlight : Answered(i)
    \/ \E ok \in BOOLEAN : MountTrendingSettles(ok)

SpecAnswered ==
    /\ Init
    /\ [][NextAnswered]_vars
    /\ \A i \in 1..MaxInFlight : WF_vars(Answered(i))
    /\ WF_vars(\E ok \in BOOLEAN : MountTrendingSettles(ok))

(***************************************************************************)
(* Properties.                                                             *)
(***************************************************************************)
\* The step is a resumption of the pending call fetches[i].
StepOf(i) ==
    IF Len(fetches') < Len(fetches)
    THEN fetches' = RemoveAt(fetches, i)
    ELSE fetches'[i] # fetches[i]

\* The call fetches[i] ends in this step.
Ends(i) == Len(fetches') < Len(fetches) /\ fetches' = RemoveAt(fetches, i)

\* updateSearchCount of fetches[i] is between its first await and its return.
InLedger(f) == f.pc \in {"list", "update", "create"}

RowsFor(docs, query) == {d \in docs : d.query = query}

\* No other pending call is inside updateSearchCount.
Alone(i) == \A j \in DOMAIN fetches : j # i => ~InLedger(fetches[j])

\* C1: a recordSearch(q, m) that overlaps no other one and whose backend
\* calls succeed creates the row (q, count 1, m.id, poster URL of m or "")
\* when the ledger has no row for q, and adds exactly 1 to the count of the
\* row for q when it has one.
C1_RecordSearchCreatesOrIncrements ==
    [][\A i \in DOMAIN fetches :
         LET f == fetches[i]
             rows == RowsFor(ledger, f.query)
         IN /\ (f.pc = "list" /\ Alone(i) /\ ListSettles(i, TRUE) /\ rows = {})
                  => fetches'[i].pc = "create"
            /\ (f.pc = "list" /\ Alone(i) /\ ListSettles(i, TRUE) /\ rows # {})
                  => fetches'[i].pc = "update"
            /\ (f.pc = "create" /\ Alone(i) /\ WriteSettles(i, TRUE) /\ rows = {})
                  => \E d \in ledger' :
                        /\ RowsFor(ledger', f.query) = {d}
                        /\ d.count = 1
                        /\ d.movie_id = f.movie.id
                        /\ d.poster_url =
                             IF f.movie.poster_path = Null THEN <<>>
                             ELSE <<"https://image.tmdb.org/t/p/w500",
                                    f.movie.poster_path>>
            /\ (f.pc = "update" /\ Alone(i) /\ WriteSettles(i, TRUE))
                  => \E d \in ledger, e \in ledger' :
                        /\ RowsFor(ledger, f.query) = {d}
                        /\ RowsFor(ledger', f.query) = {e}
                        /\ e.count = d.count + 1
      ]_vars

\* C2: in every reachable state the ledger holds at most one counter row
\* per query text, whatever the interleaving of the lookups and the writes
\* of overlapping recordSearch calls and whatever movie each carries.
C2_OneRowPerQuery ==
    \A d \in ledger, e \in ledger : d.query = e.query => d = e

\* Two overlapping calls for the same text have both looked it up, found no
\* row and gone past their create.
C2_Witness ==
    /\ Len(fetches) = 2
    /\ ledger = {}
    /\ \A i \in {1, 2} : fetches[i].pc = "trending" /\ fetches[i].query = "batman"

\* C3: when a fetch succeeds with zero results, the step that handles the
\* response leaves the message "No movies found.", an empty list and a
\* cleared loading flag; totalPages is unchanged, the call ends there (no
\* recordSearch, no leaderboard refresh) and the ledger is untouched.
C3_ZeroResults ==
    [][\A i \in DOMAIN fetches :
         (/\ fetches[i].pc = "json"
          /\ fetches[i].data.parsable
          /\ fetches[i].data.results = <<>>
          /\ StepOf(i))
         => /\ errorMessage' = "No movies found."
            /\ movieList' = <<>>
            /\ isLoading' = FALSE
            /\ totalPages' = totalPages
            /\ Ends(i)
            /\ ledger' = ledger
            /\ trendingMovies' = trendingMovies
      ]_vars

\* A zero-result response was handled while an earlier list and page count
\* were on display.
C3_Witness ==
    /\ errorMessage = "No movies found."
    /\ movieList = <<>>
    /\ ~isLoading
    /\ totalPages = 2
    /\ fetches = <<>>

\* C4: when a fetch fails (rejected, response not ok, body unparsable), the
\* step that handles it leaves the generic retry message, which is not
\* "No movies found.", clears the loading flag and leaves the movie list and
\* totalPages as they were.
C4_FetchFailure ==
    [][\A i \in DOMAIN fetches :
         (\/ fetches[i].pc = "fetch" /\ Ends(i)
          \/ fetches[i].pc = "json" /\ ~fetches[i].data.parsable /\ StepOf(i))
         => /\ errorMessage' = "Error Fetching Movies. Please Try Again Later."
            /\ errorMessage' # "No movies found."
            /\ isLoading' = FALSE
            /\ movieList' = movieList
            /\ totalPages' = totalPages
            /\ Ends(i)
      ]_vars

\* A failure was handled while a list and a page count were on display.
C4_Witness ==
    /\ errorMessage = "Error Fetching Movies. Please Try Again Later."
    /\ ~isLoading
    /\ movieList # <<>>
    /\ totalPages = 2
    /\ fetches = <<>>

\* The call fetches[i] received at least one result.
Loads(f) == f.pc = "json" /\ f.data.parsable /\ f.data.results # <<>>

\* C5: when a fetch succeeds with at least one result, the movie list and
\* totalPages are those of the response and the error message is empty, and
\* when the call ends the error message is empty and the loading flag cleared.
C5_EndsLoaded ==
    [][\A i \in DOMAIN fetches :
         /\ (Loads(fetches[i]) /\ StepOf(i))
              => /\ movieList' = fetches[i].data.results
                 /\ totalPages' = fetches[i].data.total_pages
                 /\ errorMessage' = ""
         /\ ((Loads(fetches[i]) \/ fetches[i].pc = "trending") /\ Ends(i))
              => /\ errorMessage' = ""
                 /\ isLoading' = FALSE
      ]_vars

\* C6: updateSearchCount is called exactly once by every fetch that succeeds
\* with a non-empty query and at least one result, whatever its page, with
\* the first result as its movie, and by no other fetch; the leaderboard
\* refresh of a fetch is issued only when its updateSearchCount has returned.
C6_RecordSearchOncePerLoad ==
    [][\A i \in DOMAIN fetches :
         LET f == fetches[i]
         IN /\ (StepOf(i) /\ ~Ends(i))
                 => LET g == fetches'[i]
                    IN /\ g.pc = "list"
                            => /\ Loads(f)
                               /\ f.query # ""
                               /\ g.query = f.query
                               /\ g.movie = f.data.results[1]
                       /\ g.pc = "trending" => InLedger(f)
                       /\ (InLedger(f) \/ f.pc = "trending") => g.pc # "list"
                       /\ g.pc \in {"update", "create"} => f.pc = "list"
            /\ (Loads(f) /\ f.query # "" /\ StepOf(i))
                 => ~Ends(i) /\ fetches'[i].pc = "list"
            /\ Ends(i) => ~InLedger(f)
      ]_vars

\* A fetch caused by page navigation has recorded its search and refreshes
\* the leaderboard.
C6_Witness ==
    \E i \in DOMAIN fetches :
        /\ fetches[i].pc = "trending"
        /\ fetches[i].page = 2
        /\ fetches[i].query = "batman"
        /\ \E d \in ledger : d.query = "batman" /\ d.count = 2

\* C7 as stated: the view leaves Loading when the results arrive, without
\* waiting for the ledger calls.
C7_LoadedWithoutWaiting ==
    [][\A i \in DOMAIN fetches :
         (Loads(fetches[i]) /\ StepOf(i) /\ Len(fetches) = 1)
           => isLoading' = FALSE
      ]_vars

\* C7 as amended: no step of recordSearch or of the leaderboard refresh,
\* successful or failed, changes the movie list, totalPages or the error
\* message; the loading flag is left as it is while they are pending and
\* is cleared in the step in which the leaderboard refresh settles.
C7_LedgerStepsKeepView ==
    [][\A i \in DOMAIN fetches :
         ((InLedger(fetches[i]) \/ fetches[i].pc = "trending") /\ StepOf(i))
           => /\ movieList' = movieList
              /\ totalPages' = totalPages
              /\ errorMessage' = errorMessage
              /\ Ends(i) <=> fetches[i].pc = "trending"
              /\ isLoading' = IF Ends(i) THEN FALSE ELSE isLoading
      ]_vars

\* The results of a search are in the view while its ledger write is still
\* pending, and the spinner is still shown.
C7_Witness ==
    /\ Len(fetches) = 1
    /\ fetches[1].pc = "update"
    /\ movieList # <<>>
    /\ errorMessage = ""
    /\ isLoading

\* C8: the settled query changes only when 500 time units have passed since
\* the last change of the input, and then becomes the input; a change of the
\* input restarts the window and settles nothing; every fetch is issued for
\* the settled query.
C8_Debounce ==
    [][/\ debouncedSearchTerm' # debouncedSearchTerm
            => /\ timerArmed /\ elapsed >= 500
               /\ searchTerm' = searchTerm
               /\ debouncedSearchTerm' = searchTerm
       /\ searchTerm' # searchTerm
            => /\ timerArmed' /\ elapsed' = 0
               /\ debouncedSearchTerm' = debouncedSearchTerm
               /\ fetches' = fetches
       /\ elapsed' # elapsed
            => elapsed' = 0 \/ (searchTerm' = searchTerm /\ elapsed' > elapsed)
       /\ \A k \in DOMAIN fetches' \ DOMAIN fetches :
              fetches'[k].query = debouncedSearchTerm'
      ]_vars

\* The typed text has settled after a full window.
C8_Witness ==
    /\ debouncedSearchTerm = "batman"
    /\ searchTerm = "batman"
    /\ ~timerArmed
    /\ elapsed >= 500

\* C9 as stated: every time the debounce settles on a text the user entered,
\* the page is 1 afterwards.
C9_EverySettleResetsPage ==
    [][(timerArmed /\ ~timerArmed' /\ searchTerm # "") => currentPage' = 1]_vars

\* C9 as amended: every change of the settled query leaves the page at 1,
\* whatever the page was; a settle on the text that already is the settled
\* query changes neither the page nor issues a fetch.
C9_SettledChangeResetsPage ==
    [][/\ debouncedSearchTerm' # debouncedSearchTerm => currentPage' = 1
       /\ (timerArmed /\ ~timerArmed' /\ searchTerm = debouncedSearchTerm)
            => currentPage' = currentPage /\ fetches' = fetches
      ]_vars

\* The query settled while page 2 was shown: the page is 1 again.
C9_Witness ==
    /\ currentPage = 1
    /\ debouncedSearchTerm = "batman"
    /\ Len(fetches) = 2
    /\ fetches[1].pc = "fetch" /\ fetches[1].page = 2
    /\ fetches[2].pc = "fetch" /\ fetches[2].page = 1

\* C10: every settle event (a changed settled query, a page change) issues
\* exactly one catalog fetch.
C10_OneFetchPerSettle ==
    [][(debouncedSearchTerm' # debouncedSearchTerm \/ currentPage' # currentPage)
         => Len(fetches') = Len(fetches) + 1
      ]_vars

\* C11: in every reachable state 1 <= currentPage <= totalPages, whatever
\* the query changes, the page actions and the order in which the catalog
\* responses arrive.
C11_PageWithinRange == 1 <= currentPage /\ currentPage <= totalPages

\* C12: whenever the pagination controls are shown, First and Previous are
\* disabled iff currentPage = 1 or loading, Next is disabled iff currentPage
\* is the last page or loading, each button is disabled precisely when its
\* handler would leave the page as it is or loading is set, and so a click
\* on an enabled button always changes the page.
C12_DisabledIffNoOp ==
    PaginationShown =>
        /\ FirstDisabled <=> (currentPage = 1 \/ isLoading)
        /\ PreviousDisabled <=> (currentPage = 1 \/ isLoading)
        /\ NextDisabled <=> (currentPage = totalPages \/ isLoading)
        /\ FirstDisabled <=> (FirstOnClick = currentPage \/ isLoading)
        /\ PreviousDisabled <=> (PreviousOnClick = currentPage \/ isLoading)
        /\ NextDisabled <=> (NextOnClick = currentPage \/ isLoading)

\* C13: with no fetch in flight, Next at page p < totalPages sets the page
\* to p + 1, Previous at page p > 1 sets it to p - 1 and First sets it to 1;
\* the handler of Previous at page 1 and of Next at page totalPages leave
\* the page as it is; while paging, nothing but the three buttons moves the
\* page.
C13_PageSteps ==
    [][/\ (fetches = <<>> /\ NextPage /\ currentPage < totalPages)
            => currentPage' = currentPage + 1
       /\ (fetches = <<>> /\ Previous /\ currentPage > 1)
            => currentPage' = currentPage - 1
       /\ (fetches = <<>> /\ First) => currentPage' = 1
       /\ currentPage = 1 => PreviousOnClick = 1
       /\ currentPage = totalPages => NextOnClick = totalPages
       /\ currentPage' # currentPage => (First \/ Previous \/ NextPage)
      ]_vars

\* Page 1 of 5, then three times Next, each after the fetch before it
\* completed: page 4 of 5.
C13_Witness ==
    /\ currentPage = 4
    /\ totalPages = 5
    /\ fetches = <<>>
    /\ ~isLoading
    /\ errorMessage = ""

\* The rating of a movie, one without rating counting as 0, and its genres.
RatingOf(movie) ==
    IF "vote_average" \in DOMAIN movie THEN movie.vote_average ELSE 0

GenresOf(movie) ==
    IF "genre_ids" \in DOMAIN movie THEN Range(movie.genre_ids) ELSE {}

\* C14: a result of the fetched page is displayed iff its rating, 0 when it
\* has none, is at least minRating and no genre is selected or its genre
\* set contains the selected genre's id.
C14_DisplayedIffPassesFilters ==
    \A i \in DOMAIN movieList :
        LET movie == movieList[i]
        IN (movie \in Range(filteredMovies))
             <=> /\ RatingOf(movie) >= minRating
                 /\ \/ selectedGenre = ""
                    \/ \E g \in Range(GenreList) :
                          /\ selectedGenre = OptionValue(g)
                          /\ g.id \in GenresOf(movie)

\* C15: a change of the genre filter or of the minimum rating issues no
\* catalog fetch and no ledger call and leaves the fetched list, the page,
\* totalPages, the error message and the loading flag as they were.
C15_FiltersOnlyRefineView ==
    [][(selectedGenre' # selectedGenre \/ minRating' # minRating)
         => UNCHANGED <<fetches, ledger, mountTrending, trendingMovies,
                        movieList, currentPage, totalPages, errorMessage,
                        isLoading, debouncedSearchTerm>>
      ]_vars

\* Both filters are set on a fetched page and hide some of its results.
C15_Witness ==
    /\ selectedGenre = "18"
    /\ minRating = 60
    /\ movieList = <<Amelie, Untagged, Heat>>
    /\ filteredMovies = <<Heat>>
    /\ fetches = <<>>
    /\ ~isLoading

NoDuplicateIds(list) ==
    \A i, j \in DOMAIN list : list[i].id = list[j].id => i = j

contains(list, id) == \E i \in DOMAIN list : list[i].id = id

EntriesWith(list, id) == {i \in DOMAIN list : list[i].id = id}

\* save(movie) took list to list2.
Saved(list, list2, movie) ==
    /\ contains(list2, movie.id)
    /\ Cardinality(EntriesWith(list2, movie.id)) = 1
    /\ list2 = IF contains(list, movie.id) THEN list ELSE list \o <<movie>>

\* C16: no two favourites of a store share a movie id, nor do two entries
\* of the persisted list; save(m) inserts m when no entry has m.id and
\* changes nothing when one has, so that afterwards exactly one entry has
\* m.id.
C16_SaveKeepsIdsUnique ==
    [][/\ NoDuplicateIds(savedMovies) /\ NoDuplicateIds(savedMovies')
       /\ NoDuplicateIds(contextSavedMovies) /\ NoDuplicateIds(contextSavedMovies')
       /\ NoDuplicateIds(Parse(storage)) /\ NoDuplicateIds(Parse(storage'))
       /\ \A movie \in FavouriteMovies, writable \in BOOLEAN :
            /\ handleSaveMovie(movie, writable)
                 => Saved(savedMovies, savedMovies', movie)
            /\ saveMovie(movie, writable)
                 => Saved(contextSavedMovies, contextSavedMovies', movie)
      ]_vars

\* Home holds the list entry of a movie whose detail entry the other store
\* saved: the two entries are different objects with one id.
C16_Witness ==
    /\ phase = "idle" /\ mountedPage = "home"
    /\ savedMovies = <<Inception, Batman>>
    /\ contextSavedMovies = <<Inception, BatmanDetail>>
    /\ storage = Stringify(savedMovies)

\* remove(id) took list to list2.
Removed(list, list2, id) ==
    /\ ~contains(list2, id)
    /\ Len(list2) = Len(list) - Cardinality(EntriesWith(list, id))
    /\ \A i \in DOMAIN list : list[i].id # id => list[i] \in Range(list2)
    /\ \A i, j \in DOMAIN list2 :
          i < j => \E a, b \in DOMAIN list :
                      a < b /\ list[a] = list2[i] /\ list[b] = list2[j]
    /\ ~contains(list, id) => list2 = list

\* C17: remove(id) deletes the entry with that id and leaves every other
\* favourite and their order as they were; when no entry has the id the
\* list is unchanged; afterwards contains(id) is false.
C17_RemoveDeletesOnlyThatId ==
    [][\A movie \in FavouriteMovies, writable \in BOOLEAN :
         /\ handleRemoveMovie(movie, writable)
              => Removed(savedMovies, savedMovies', movie.id)
         /\ removeMovie(movie.id, writable)
              => Removed(contextSavedMovies, contextSavedMovies', movie.id)
      ]_vars

\* The first of two favourites was removed from Home's list; the second is
\* still there and the item holds the new list.
C17_Witness ==
    /\ phase = "idle" /\ mountedPage = "home"
    /\ savedMovies = <<BatmanDetail>>
    /\ contextSavedMovies = <<Inception, BatmanDetail>>
    /\ storage = Stringify(<<BatmanDetail>>)

\* The list an item stands for: its list when it is well-formed, the empty
\* list when it is missing or malformed.
ListOf(item) == IF item.text = "json" THEN item.value ELSE <<>>

\* C18: at startup each store loads the persisted list: Home's list is the
\* list of the item whenever Home mounts, the provider's load never raises
\* an error, and the list the provider read is its list once the startup
\* is over.
C18_LoadRestoresOrEmpty ==
    [][/\ (phase = "effects" /\ mountedPage = "home")
            => savedMovies = ListOf(storage)
       /\ BackToHome(TRUE) => savedMovies' = ListOf(storage)
       /\ MountEffects(TRUE) => ~crashed'
       /\ (CommitUpdates(TRUE) /\ updates # <<>>)
            => contextSavedMovies' = updates[1]
      ]_vars

\* C19: every change of a store's list is written to the item in the same
\* step; whenever the startup is over the item holds the list of each
\* mounted store; during startup a non-empty persisted list is never
\* replaced by the empty list.
C19_WriteThrough ==
    [][/\ (savedMovies' # savedMovies /\ mountedPage' = "home" /\ ~crashed')
            => storage' = Stringify(savedMovies')
       /\ (contextSavedMovies' # contextSavedMovies /\ ~crashed')
            => storage' = Stringify(contextSavedMovies')
       /\ (phase' = "idle" /\ ~crashed')
            => /\ storage' = Stringify(contextSavedMovies')
               /\ mountedPage' = "home" => storage' = Stringify(savedMovies')
       /\ (phase # "idle" /\ ListOf(storage) # <<>>)
            => ListOf(storage') # <<>>
      ]_vars

\* C20: no failure of a collaborator (catalog fetch, genre fetch, ledger
\* call, storage write) is fatal: no error is left uncaught, the view never
\* crashes.
C20_NothingFatal == ~crashed

\* The count of the row a leaderboard entry was made from.
CountOf(docs, item) == (CHOOSE d \in docs : d.dollarId = item.dollarId).count

\* The rows of docs that are not in the list.
LeftOut(docs, list) ==
    {d \in docs : \A k \in DOMAIN list : list[k].dollarId # d.dollarId}

\* The list is a leaderboard of docs: at most 5 entries, each made from a
\* row of its own, counts never rising, no row left out beats an entry.
TopOf(docs, list) ==
    /\ Len(list) <= 5
    /\ \A k \in DOMAIN list : \E d \in docs : list[k] = trendingItem(d)
    /\ \A j, k \in DOMAIN list : j # k => list[j].dollarId # list[k].dollarId
    /\ \A j, k \in DOMAIN list :
          j < k => CountOf(docs, list[j]) >= CountOf(docs, list[k])
    /\ \A d \in LeftOut(docs, list) :
          \A k \in DOMAIN list : CountOf(docs, list[k]) >= d.count

\* C21: topSearches returns at most 5 counter rows, each a row of the
\* ledger, in non-increasing order of count, and no row left out has a
\* count strictly greater than a returned row.
C21_TopSearchesOrdered ==
    [][/\ MountTrendingSettles(TRUE) => TopOf(ledger, trendingMovies')
       /\ \A i \in DOMAIN fetches :
             TrendingSettles(i, TRUE) => TopOf(ledger, trendingMovies')
      ]_vars

\* The leaderboard shows 5 of 6 rows after a search was recorded; the row
\* left out has the count of a row that is shown.
C21_Witness ==
    /\ Len(trendingMovies) = 5
    /\ Cardinality(ledger) = 6
    /\ TopOf(ledger, trendingMovies)
    /\ \E d \in ledger : d.query = "batman" /\ d.count = 2
    /\ \E d \in LeftOut(ledger, trendingMovies) :
          \E k \in DOMAIN trendingMovies :
              CountOf(ledger, trendingMovies[k]) = d.count

\* The list has an entry made from a row of docs for the query.
Lists(docs, list, query) ==
    \E d \in RowsFor(docs, query) :
        \E k \in DOMAIN list : list[k] = trendingItem(d)

\* C22: for every query text and every prior content of the ledger, the
\* topSearches that follows a recordSearch(q, m) whose backend calls
\* succeed returns a list that includes the row for q.
C22_RecordedThenListed ==
    [][\A i \in DOMAIN fetches :
         TrendingSettles(i, TRUE)
           => Lists(ledger, trendingMovies', fetches[i].query)
      ]_vars

\* C23: a backend failure in a ledger operation is never surfaced: a
\* recordSearch whose lookup, update or create fails returns normally (the
\* fetch goes on to the leaderboard refresh) and leaves the ledger as it
\* was, a failing topSearches yields the empty list, and neither changes
\* the error message or the movie list.
C23_LedgerFailuresSwallowed ==
    [][/\ \A i \in DOMAIN fetches :
             /\ (\/ ListSettles(i, FALSE)
                 \/ WriteSettles(i, FALSE)
                 \/ (ListSettles(i, TRUE) /\ RowsFor(ledger, fetches[i].query) = {}))
                   => /\ ledger' = ledger
                      /\ Len(fetches') = Len(fetches)
                      /\ fetches'[i].pc = "trending"
                      /\ errorMessage' = errorMessage
                      /\ movieList' = movieList
             /\ TrendingSettles(i, FALSE)
                   => /\ trendingMovies' = <<>>
                      /\ ledger' = ledger
                      /\ errorMessage' = errorMessage
                      /\ movieList' = movieList
       /\ MountTrendingSettles(FALSE)
             => /\ trendingMovies' = <<>>
                /\ ledger' = ledger
                /\ errorMessage' = errorMessage
                /\ movieList' = movieList
      ]_vars

\* A search for "batman" is over with its results in the view and no error
\* message, although its ledger calls failed: the row still has its first
\* count and the leaderboard is empty next to a ledger that is not.
C23_Witness ==
    /\ fetches = <<>>
    /\ mountTrending = "done"
    /\ debouncedSearchTerm = "batman"
    /\ movieList # <<>>
    /\ errorMessage = ""
    /\ ledger # {}
    /\ \A d \in ledger : d.count = 1
    /\ trendingMovies = <<>>

\* C24: the count of a counter row is always at least 1, from one ledger
\* state to the next no row's count decreases and no row disappears,
\* whatever the interleaving of the lookups and the writes of overlapping
\* recordSearch calls.
C24_CountsOnlyGrow ==
    [][/\ \A e \in ledger' : e.count >= 1
       /\ \A d \in ledger :
             \E e \in ledger' : e.dollarId = d.dollarId /\ e.count >= d.count
      ]_vars

\* C25: the creation path keys the new row by the first-result movie's id:
\* a lookup that finds no row for the query is followed by a creation whose
\* document id is the id of the movie, so that of two new query texts with
\* the same first result the first creates the row and the second collides
\* with it; the ledger never holds two rows under that id, and no step of a
\* creation changes the error message or the movie list.
C25_CreationKeyedByMovie ==
    [][\A i \in DOMAIN fetches :
         LET f == fetches[i]
         IN /\ (ListSettles(i, TRUE) /\ RowsFor(ledger, f.query) = {})
                  => /\ createDocumentId(f.movie) = f.movie.id
                     /\ fetches'[i].pc = "create"
                     /\ errorMessage' = errorMessage
                     /\ movieList' = movieList
            /\ (f.pc = "create" /\ StepOf(i))
                  => /\ Cardinality({d \in ledger' : d.dollarId = f.movie.id}) = 1
                     /\ errorMessage' = errorMessage
                     /\ movieList' = movieList
      ]_vars

\* C26: in-flight catalog fetches are neither cancelled nor sequenced: a
\* pending call leaves only by its own last step, a step that issues calls
\* keeps the pending ones, and every response is put into the view whether
\* or not it answers the current (settled query, page).
C26_NeitherCancelledNorSequenced ==
    [][/\ Len(fetches') >= Len(fetches)
            => \A i \in DOMAIN fetches :
                  /\ fetches'[i].query = fetches[i].query
                  /\ fetches'[i].page = fetches[i].page
       /\ Len(fetches') < Len(fetches)
            => \E i \in DOMAIN fetches : Ends(i)
       /\ \A i \in DOMAIN fetches :
             JsonSettles(i)
               => /\ movieList' = fetches[i].data.results
                  /\ totalPages' = fetches[i].data.total_pages
      ]_vars

\* No fetch is in flight and the view shows the answer to another request
\* than the current one: the settled query is "batman", the list and
\* totalPages are those of the popular movies, whose response came last.
C26_Witness ==
    /\ fetches = <<>>
    /\ ~isLoading
    /\ errorMessage = ""
    /\ debouncedSearchTerm = "batman"
    /\ currentPage = 1
    /\ movieList = Catalog("", 1).results
    /\ totalPages = Catalog("", 1).total_pages
    /\ movieList # Catalog(debouncedSearchTerm, currentPage).results

\* C27: the loading flag is true in every state in which a fetchMovies
\* call (its awaited ledger calls included) is still pending, so no
\* pagination button changes the page while a call is pending.
C27_LoadingWhileInFlight ==
    [][/\ fetches # <<>> => isLoading
       /\ fetches' # <<>> => isLoading'
       /\ ((First \/ Previous \/ NextPage) /\ currentPage' # currentPage)
             => fetches = <<>>
      ]_vars

\* C28: no increment is lost when recordSearch calls for the same query
\* text overlap: every update that succeeds leaves the row's count one
\* above the count the row had when the update arrived, so that the count
\* grows by the number of successful calls.
C28_NoLostIncrement ==
    [][\A i \in DOMAIN fetches :
         (fetches[i].pc = "update" /\ WriteSettles(i, TRUE))
           => \E d \in ledger, e \in ledger' :
                 /\ d.dollarId = fetches[i].doc.dollarId
                 /\ e.dollarId = d.dollarId
                 /\ e.count = d.count + 1
      ]_vars

\* The ids of the movies of a list.
IdsOf(list) == {list[k].id : k \in DOMAIN list}

\* The step keeps every persisted movie, but the one with the id dropped.
KeepsPersisted(dropped) ==
    (IdsOf(ListOf(storage)) \ dropped) \subseteq IdsOf(ListOf(storage'))

\* C29: Home's list and the provider's list are persisted under the same
\* key from separate lists, and a write by one store never discards an
\* entry saved through the other: a save through either store keeps every
\* persisted movie and adds the saved one, a remove through either store
\* takes away the removed movie only.
C29_StoresKeepEachOthersEntries ==
    [][/\ \A movie \in {Batman, Inception} :
             handleSaveMovie(movie, TRUE)
               => KeepsPersisted({}) /\ movie.id \in IdsOf(ListOf(storage'))
       /\ saveMovie(BatmanDetail, TRUE)
             => KeepsPersisted({}) /\ BatmanDetail.id \in IdsOf(ListOf(storage'))
       /\ \A movie \in FavouriteMovies :
             /\ CardRemove(movie, TRUE) => KeepsPersisted({movie.id})
             /\ DetailRemove(movie, TRUE) => KeepsPersisted({movie.id})
      ]_vars

\* C30: when every catalog and ledger request is answered or fails in the
\* end, every state in which the loading flag is set is followed by a
\* state in which it is cleared: the view never stays Loading forever.
C30_LoadingEnds == isLoading ~> ~isLoading

\* The flag, set by the fetch of page 2 of a search, is cleared on the
\* failure path: no call is pending, the error message is shown.
C30_Witness ==
    /\ ~isLoading
    /\ fetches = <<>>
    /\ debouncedSearchTerm = "batman"
    /\ currentPage = 2
    /\ errorMessage = FetchErrorMessage

====
